---------------------------- MODULE Spec2Model ----------------------------
(***************************************************************************)
(* Model of the request-orchestration core of medical-report-ai-toolset:   *)
(*   - sync_runner.py : RateLimiter, _call_with_retry, process_records     *)
(*   - batch_runner.py: write_request_jsonl, parse_batch_results           *)
(*                                                                         *)
(* Six specifications share the variables below.                           *)
(*   SpecSync  : process_records and its workers (asyncio tasks).  Time is *)
(*               abstracted: a rate-limiter wait either passes at once or  *)
(*               sleeps while holding the limiter's lock.                  *)
(*   SpecRL    : one RateLimiter on a discrete clock, any number of        *)
(*               callers, sleeps that may wake late.                       *)
(*   SpecBatch : write_request_jsonl followed by parse_batch_results on an *)
(*               arbitrary result artifact.                                *)
(*   SpecLife  : run_batch with poll_batch, every transport call able to   *)
(*               raise and the provider free in what it answers.           *)
(*   SpecRetry : one _call_with_retry frame with the delay it computes     *)
(*               after each failed attempt.                                *)
(*   SpecParse : the parse step of the sync worker and of                  *)
(*               parse_batch_results on one message content, with          *)
(*               normalise_extraction.                                     *)
(* Python's None is the empty sequence, a present value x is <<x>>.        *)
(* Strings that the code builds (ids, submission keys) are sequences of    *)
(* one-character strings, so that f"{base_id}__{count+1}" is computed.     *)
(***************************************************************************)
EXTENDS Integers, Sequences, FiniteSets, TLC

VARIABLES
    \* ---- configuration (AppConfig.rate_limit, template_id) ----
    concurrency,    \* config.rate_limit.concurrency
    max_retries,    \* config.rate_limit.max_retries
    template_known, \* config.template_id is a key of TEMPLATES
    \* ---- input ----
    records,        \* List[Record]
    \* ---- process_records ----
    ppc,            \* position of run_sync and process_records: run, entry,
                    \* gather, returned, written, raised
    sem,            \* asyncio.Semaphore value
    rl_lock,        \* RateLimiter._lock holder (None or <<caller>>)
    pc,             \* position of each worker task
    attempt,        \* loop variable of _call_with_retry, per worker
    calls,          \* chat_completion calls issued, per worker
    errs,           \* exceptions chat_completion raised, per worker, in order
    retval,         \* what _call_with_retry gave the worker: None, return or raise
    task,           \* result of each finished worker task (None while running)
    texc,           \* exception that left a worker task (None when it returned)
    doneq,          \* as_completed's queue of finished tasks, completion order
    reluts,         \* the list process_records builds and returns
    \* ---- RateLimiter on a clock (SpecRL) ----
    rpm,            \* config.rate_limit.rpm
    clock,          \* time.monotonic(), in seconds
    next_slot,      \* RateLimiter._next_slot
    rlpc,           \* position of each caller of wait(): idle or sleeping
    now,            \* the local "now" of each caller inside wait()
    grants,         \* clock readings at the last two returns of wait()
    \* ---- batch path (SpecBatch) ----
    bpc,            \* position of the batch path: write, parse, returned, raised
    seen_counts,    \* write_request_jsonl: occurrences of each base id so far
    id_map,         \* write_request_jsonl: custom_id -> Record
    custom_ids,     \* the custom_id of each line written to the request file
    nlines,         \* artifact lines parse_batch_results has consumed
    echoed,         \* the custom_id values those lines carried
    dropped,        \* how many of those lines had no or an unknown custom_id
    results_dict,   \* parse_batch_results: record.id_value -> outcome tuple
    ordered,        \* the list parse_batch_results returns
    \* ---- run_batch and poll_batch (SpecLife) ----
    provider,       \* app_config.get_provider()
    has_key,        \* a credential is configured (ensure_api_key succeeds)
    lpc,            \* position of run_batch
    file_id,        \* the id taken from the upload response (None before)
    status,         \* the status snapshot run_batch / poll_batch holds
    poll_result,    \* what poll_batch returned (None before it returns)
    output_file_id, \* run_batch's output_file_id (None or <<string>>)
    poll_count,     \* poll_batch's poll_count
    id_attempt,     \* loop variable of the output_file_id re-query loop
    dl_attempt,     \* loop variable of the download loop
    log,            \* transport calls, file steps and sleeps so far, in order
    lerr,           \* the exception that left run_batch (None when none)
    result,         \* the dict run_batch returned (None before)
    \* ---- one _call_with_retry frame with its delays (SpecRetry) ----
    backoff,        \* config.rate_limit.retry_backoff
    rpc,            \* position of the frame
    r_attempt,      \* loop variable "attempt"
    r_errs,         \* str(exc) of each failed attempt, in order
    delays,         \* the argument of each asyncio.sleep(delay), in order
    \* ---- the parse step of both paths (SpecParse) ----
    template_id,    \* config.template_id
    content,        \* the message content the model returned
    sync_out,       \* (extraction, error) of the sync worker (None before)
    batch_out       \* (extraction, error) of parse_batch_results (None before)

syncVars == <<concurrency, max_retries, template_known, ppc, sem, rl_lock, pc,
              attempt, calls, errs, retval, task, texc, doneq, reluts>>

rlVars == <<rpm, clock, next_slot, rlpc, now, grants>>

batchVars == <<bpc, seen_counts, id_map, custom_ids, nlines, echoed, dropped,
               results_dict, ordered>>

lifeVars == <<provider, has_key, lpc, file_id, status, poll_result,
              output_file_id, poll_count, id_attempt, dl_attempt, log, lerr,
              result>>

retryVars == <<backoff, rpc, r_attempt, r_errs, delays>>

parseVars == <<template_id, content, sync_out, batch_out>>

vars == <<records, syncVars, rlVars, batchVars, lifeVars, retryVars,
         parseVars>>

----------------------------------------------------------------------------
(* Bounds of the model *)

MaxRecords == 2
MaxConc == 2
MaxRetries == 1
MaxCallers == 2
MaxClock == 7
MaxBatchRecords == 3
MaxLines == 3
MaxFrameRetries == 2
MaxPolls == 3
MaxFields == 2

----------------------------------------------------------------------------
(* Optional values and strings *)

None == <<>>
Some(x) == <<x>>
IsNone(o) == o = <<>>
The(o) == o[1]

Max(a, b) == IF a >= b THEN a ELSE b

DigitChar(d) ==
    CASE d = 0 -> "0" [] d = 1 -> "1" [] d = 2 -> "2" [] d = 3 -> "3"
      [] d = 4 -> "4" [] d = 5 -> "5" [] d = 6 -> "6" [] d = 7 -> "7"
      [] d = 8 -> "8" [] d = 9 -> "9"

RECURSIVE Decimal(_)
\* str(k) for a natural number k
Decimal(k) ==
    IF k < 10 THEN <<DigitChar(k)>>
    ELSE Decimal(k \div 10) \o <<DigitChar(k % 10)>>

\* read_csv_records: an absent id is synthesized as row_<n>
RowId(n) == <<"r", "o", "w", "_">> \o Decimal(n)

\* Record(id_value, text, row_data); row stands for the row's own content
Record(id, n) == [id_value |-> id, row |-> n]


----------------------------------------------------------------------------
(* The transport boundary: what client.chat_completion can do *)

\* str(exc) of the exceptions chat_completion raises (a generic and a quota one)
TransportErrors == {"Connection error.", "Error code: 429"}

\* responses chat_completion returns, by what the worker's parse makes of them
Responses == {"ok", "no_choices", "not_json", "not_object"}

----------------------------------------------------------------------------
(* _call_with_retry, sync_runner.py 158-196 *)

LoopContinuesOffByOne(a, maxr) == a < maxr

\* for attempt in range(max_retries + 1)
LoopContinues(a, maxr) == a < maxr + 1

\* if attempt >= max_retries: raise exc
RetryRaises(a, maxr) == a >= maxr

AfterBackoffSkipsWait == "call"

\* after asyncio.sleep(delay) the for loop starts its next iteration, whose
\* first statement is "await ratelimiter.wait()" (166-167)
AfterBackoff == "loop"

RaisedErrorFirst(es) == es[1]

\* raise exc: the exception of the attempt that just failed
RaisedError(es) == es[Len(es)]

----------------------------------------------------------------------------
(* process_records.worker, sync_runner.py 209-224 *)

\* the exception, if any, that lines 217-221 raise on what _call_with_retry
\* returned ("None" is Python's None, returned when the loop body never ran)
ParseError(resp) ==
    CASE resp = "ok" -> None
      [] resp = "None" -> Some("'NoneType' object is not subscriptable")
      [] resp = "no_choices" -> Some("list index out of range")
      [] resp = "not_json" -> Some("Expecting value: line 1 column 1 (char 0)")
      [] resp = "not_object" -> Some("'list' object has no attribute 'setdefault'")

\* normalise_extraction(data, template_id) followed by result.id_value = ...
Extraction(rec) == [id_value |-> rec.id_value]

SuccessOutcome(rec) == [rec |-> rec, ext |-> Some(Extraction(rec)), err |-> None]

FailureOutcomeNoError(rec, msg) == [rec |-> rec, ext |-> None, err |-> None]

\* return record, None, str(exc)
FailureOutcome(rec, msg) == [rec |-> rec, ext |-> None, err |-> Some(msg)]

WorkerCatchesTransportOnly(msg) == msg \in TransportErrors

\* except Exception as exc
WorkerCatches(msg) == TRUE

\* the exception, if any, raised inside the worker's try block
WorkerException(rv) ==
    IF rv.kind = "raise" THEN Some(rv.val) ELSE ParseError(rv.val)

LockFreeAlways(l) == TRUE

\* async with self._lock (RateLimiter.wait 132): entered only while no
\* caller holds the lock
LockFree(l) == IsNone(l)

SemAcquirableAlways(s) == TRUE

\* asyncio.Semaphore.acquire does not block
SemAcquirable(s) == s > 0

SemAfterExitSuccessOnly(s, rv) == IF rv.kind = "raise" THEN s ELSE s + 1

\* leaving "async with sem" (worker 215-216): the slot is given back, whether
\* _call_with_retry returned or raised
SemAfterExit(s, rv) == s + 1

Workers == 1..Len(records)

\* workers inside "async with sem"
Admitted ==
    {i \in Workers : pc[i] \in {"loop", "rl_sleep", "call", "backoff", "leave"}}

\* chat_completion calls in flight
InFlight == {i \in Workers : pc[i] = "call"}

----------------------------------------------------------------------------
(* SpecSync: initial state *)

SyncRecordLists ==
    {[i \in 1..n |-> Record(RowId(i), i)] : n \in 0..MaxRecords}

\* the variables of SpecRL while another specification runs
RLUnused ==
    /\ rpm = 0
    /\ clock = 0
    /\ next_slot = 0
    /\ rlpc = <<>>
    /\ now = <<>>
    /\ grants = <<>>

\* the variables of SpecBatch while another specification runs
BatchUnused ==
    /\ bpc = "write"
    /\ seen_counts = <<>>
    /\ id_map = <<>>
    /\ custom_ids = <<>>
    /\ nlines = 0
    /\ echoed = {}
    /\ dropped = 0
    /\ results_dict = <<>>
    /\ ordered = <<>>

\* the variables of SpecLife while another specification runs
LifeUnused ==
    /\ provider = None
    /\ has_key = FALSE
    /\ lpc = "entry"
    /\ file_id = None
    /\ status = None
    /\ poll_result = None
    /\ output_file_id = None
    /\ poll_count = 0
    /\ id_attempt = 0
    /\ dl_attempt = 0
    /\ log = <<>>
    /\ lerr = None
    /\ result = None

\* the variables of SpecParse while another specification runs
ParseUnused ==
    /\ template_id = ""
    /\ content = None
    /\ sync_out = None
    /\ batch_out = None

\* the variables of SpecRetry while another specification runs
RetryUnused ==
    /\ backoff = 0
    /\ rpc = "loop"
    /\ r_attempt = 0
    /\ r_errs = <<>>
    /\ delays = <<>>

InitSync ==
    /\ ParseUnused
    /\ RLUnused
    /\ BatchUnused
    /\ LifeUnused
    /\ RetryUnused
    /\ records \in SyncRecordLists
    /\ concurrency \in -1..MaxConc
    /\ max_retries \in -1..MaxRetries
    /\ template_known \in BOOLEAN
    /\ ppc = "run"
    /\ sem = 0
    /\ rl_lock = None
    /\ pc = [i \in Workers |-> "init"]
    /\ attempt = [i \in Workers |-> 0]
    /\ calls = [i \in Workers |-> 0]
    /\ errs = [i \in Workers |-> <<>>]
    /\ retval = [i \in Workers |-> [kind |-> "pending", val |-> ""]]
    /\ task = [i \in Workers |-> None]
    /\ texc = [i \in Workers |-> None]
    /\ doneq = <<>>
    /\ reluts = <<>>

----------------------------------------------------------------------------
(* SpecSync: actions *)

\* run_sync 291-300: the configuration is taken, read_csv_records returns the
\* records (an empty list is returned like any other) and SiliconClient is
\* built, which raises when no credential is configured (key = FALSE)
RunSync(key) ==
    /\ ppc = "run"
    /\ ppc' = IF key THEN "entry" ELSE "raised"
    /\ UNCHANGED <<rlVars, batchVars, lifeVars, retryVars, parseVars, records,
                   concurrency, max_retries, template_known, sem, rl_lock,
                   pc, attempt, calls, errs, retval, task, texc, doneq, reluts>>

\* run_sync 302-303: write_outputs writes the two output files, header line
\* included, for whatever list process_records returned
RunSyncWrite ==
    /\ ppc = "returned"
    /\ ppc' = "written"
    /\ UNCHANGED <<rlVars, batchVars, lifeVars, retryVars, parseVars, records,
                   concurrency, max_retries, template_known, sem, rl_lock,
                   pc, attempt, calls, errs, retval, task, texc, doneq, reluts>>

\* process_records 204-207: asyncio.Semaphore(n) raises ValueError for n < 0,
\* build_system_prompt raises ValueError for an unknown template
ProcessStart ==
    /\ ppc = "entry"
    /\ IF concurrency < 0 \/ ~template_known
       THEN ppc' = "raised" /\ UNCHANGED sem
       ELSE ppc' = "gather" /\ sem' = concurrency
    /\ UNCHANGED <<rlVars, batchVars, lifeVars, retryVars, parseVars, records, concurrency, max_retries, template_known, rl_lock,
                   pc, attempt, calls, errs, retval, task, texc, doneq, reluts>>

\* worker 214-215: async with sem
Admit(i) ==
    /\ ppc = "gather"
    /\ pc[i] = "init"
    /\ SemAcquirable(sem)
    /\ sem' = sem - 1
    /\ pc' = [pc EXCEPT ![i] = "loop"]
    /\ UNCHANGED <<rlVars, batchVars, lifeVars, retryVars, parseVars, records, concurrency, max_retries, template_known, ppc,
                   rl_lock, attempt, calls, errs, retval, task, texc, doneq,
                   reluts>>

\* _call_with_retry 166: the for loop is exhausted (or never entered) and the
\* function returns None
LoopExit(i) ==
    /\ pc[i] = "loop"
    /\ ~LoopContinues(attempt[i], max_retries)
    /\ retval' = [retval EXCEPT ![i] = [kind |-> "return", val |-> "None"]]
    /\ pc' = [pc EXCEPT ![i] = "leave"]
    /\ UNCHANGED <<rlVars, batchVars, lifeVars, retryVars, parseVars, records, concurrency, max_retries, template_known, ppc, sem,
                   rl_lock, attempt, calls, errs, task, texc, doneq, reluts>>

\* RateLimiter.wait 132-136 without a sleep, then the call is issued (169).
\* Whether the slot is due depends on the clock, which SpecSync leaves open:
\* at every wait both RLPass and RLSleep are possible.  The marker
\* arithmetic is in SpecRL.
RLPass(i) ==
    /\ pc[i] = "loop"
    /\ LoopContinues(attempt[i], max_retries)
    /\ LockFree(rl_lock)
    /\ pc' = [pc EXCEPT ![i] = "call"]
    /\ calls' = [calls EXCEPT ![i] = @ + 1]
    /\ UNCHANGED <<rlVars, batchVars, lifeVars, retryVars, parseVars, records, concurrency, max_retries, template_known, ppc, sem,
                   rl_lock, attempt, errs, retval, task, texc, doneq, reluts>>

\* RateLimiter.wait 132-135: takes the lock and sleeps until the next slot
RLSleep(i) ==
    /\ pc[i] = "loop"
    /\ LoopContinues(attempt[i], max_retries)
    /\ LockFree(rl_lock)
    /\ rl_lock' = Some(i)
    /\ pc' = [pc EXCEPT ![i] = "rl_sleep"]
    /\ UNCHANGED <<rlVars, batchVars, lifeVars, retryVars, parseVars, records, concurrency, max_retries, template_known, ppc, sem,
                   attempt, calls, errs, retval, task, texc, doneq, reluts>>

\* RateLimiter.wait 136: the sleep ends, the lock is released, the call is issued
RLWake(i) ==
    /\ pc[i] = "rl_sleep"
    /\ rl_lock' = None
    /\ pc' = [pc EXCEPT ![i] = "call"]
    /\ calls' = [calls EXCEPT ![i] = @ + 1]
    /\ UNCHANGED <<rlVars, batchVars, lifeVars, retryVars, parseVars, records, concurrency, max_retries, template_known, ppc, sem,
                   attempt, errs, retval, task, texc, doneq, reluts>>

\* 169-173: chat_completion returns resp, _call_with_retry returns it
CallReturn(i, resp) ==
    /\ pc[i] = "call"
    /\ retval' = [retval EXCEPT ![i] = [kind |-> "return", val |-> resp]]
    /\ pc' = [pc EXCEPT ![i] = "leave"]
    /\ UNCHANGED <<rlVars, batchVars, lifeVars, retryVars, parseVars, records, concurrency, max_retries, template_known, ppc, sem,
                   rl_lock, attempt, calls, errs, task, texc, doneq, reluts>>

\* 174-196: chat_completion raises e; the last permitted attempt re-raises it,
\* an earlier one goes to its backoff sleep
CallRaise(i, e) ==
    /\ pc[i] = "call"
    /\ errs' = [errs EXCEPT ![i] = Append(@, e)]
    /\ IF RetryRaises(attempt[i], max_retries)
       THEN /\ retval' = [retval EXCEPT ![i] =
                             [kind |-> "raise", val |-> RaisedError(errs'[i])]]
            /\ pc' = [pc EXCEPT ![i] = "leave"]
       ELSE /\ pc' = [pc EXCEPT ![i] = "backoff"]
            /\ UNCHANGED retval
    /\ UNCHANGED <<rlVars, batchVars, lifeVars, retryVars, parseVars, records, concurrency, max_retries, template_known, ppc, sem,
                   rl_lock, attempt, calls, task, texc, doneq, reluts>>

\* 196 and 166: the backoff sleep ends, the loop takes the next attempt
BackoffEnd(i) ==
    /\ pc[i] = "backoff"
    /\ attempt' = [attempt EXCEPT ![i] = @ + 1]
    /\ pc' = [pc EXCEPT ![i] = AfterBackoff]
    /\ UNCHANGED <<rlVars, batchVars, lifeVars, retryVars, parseVars, records, concurrency, max_retries, template_known, ppc, sem,
                   rl_lock, calls, errs, retval, task, texc, doneq, reluts>>

\* worker 215-224: _call_with_retry has left with retval; the worker leaves
\* "async with sem", parses the response and its task finishes.  The frame of
\* _call_with_retry (attempt, the exceptions seen, the calls issued) is gone.
Leave(i) ==
    /\ pc[i] = "leave"
    /\ LET exc == WorkerException(retval[i])
           rec == records[i]
       IN  IF IsNone(exc)
           THEN /\ task' = [task EXCEPT ![i] = Some(SuccessOutcome(rec))]
                /\ UNCHANGED texc
           ELSE IF WorkerCatches(The(exc))
           THEN /\ task' = [task EXCEPT ![i] = Some(FailureOutcome(rec, The(exc)))]
                /\ UNCHANGED texc
           ELSE /\ texc' = [texc EXCEPT ![i] = exc]
                /\ UNCHANGED task
    /\ sem' = SemAfterExit(sem, retval[i])
    /\ pc' = [pc EXCEPT ![i] = "done"]
    /\ attempt' = [attempt EXCEPT ![i] = 0]
    /\ calls' = [calls EXCEPT ![i] = 0]
    /\ errs' = [errs EXCEPT ![i] = <<>>]
    /\ doneq' = Append(doneq, i)
    /\ UNCHANGED <<rlVars, batchVars, lifeVars, retryVars, parseVars, records, concurrency, max_retries, template_known, ppc,
                   rl_lock, retval, reluts>>

\* process_records 227-229: as_completed yields the next finished task, in
\* completion order; "await chunk" re-raises a task's exception
Collect ==
    /\ ppc = "gather"
    /\ doneq # <<>>
    /\ LET i == Head(doneq)
       IN  IF IsNone(texc[i])
           THEN reluts' = Append(reluts, The(task[i])) /\ UNCHANGED ppc
           ELSE ppc' = "raised" /\ UNCHANGED reluts
    /\ doneq' = Tail(doneq)
    /\ UNCHANGED <<rlVars, batchVars, lifeVars, retryVars, parseVars, records, concurrency, max_retries, template_known, sem,
                   rl_lock, pc, attempt, calls, errs, retval, task, texc>>

\* process_records 230: every task was yielded
Return ==
    /\ ppc = "gather"
    /\ Len(reluts) = Len(records)
    /\ ppc' = "returned"
    /\ UNCHANGED <<rlVars, batchVars, lifeVars, retryVars, parseVars, records, concurrency, max_retries, template_known, sem,
                   rl_lock, pc, attempt, calls, errs, retval, task, texc,
                   doneq, reluts>>

NextSync ==
    \/ \E key \in BOOLEAN : RunSync(key)
    \/ ProcessStart
    \/ \E i \in Workers : Admit(i)
    \/ \E i \in Workers : LoopExit(i)
    \/ \E i \in Workers : RLPass(i)
    \/ \E i \in Workers : RLSleep(i)
    \/ \E i \in Workers : RLWake(i)
    \/ \E i \in Workers : \E resp \in Responses : CallReturn(i, resp)
    \/ \E i \in Workers : \E e \in TransportErrors : CallRaise(i, e)
    \/ \E i \in Workers : BackoffEnd(i)
    \/ \E i \in Workers : Leave(i)
    \/ Collect
    \/ Return
    \/ RunSyncWrite

SpecSync == InitSync /\ [][NextSync]_vars

----------------------------------------------------------------------------
(* SpecRL: RateLimiter, sync_runner.py 125-136, on a discrete clock *)

\* rpm settings: 0 exercises max(rpm, 1); 20 and 30 give 3 s and 2 s
RpmValues == {0, 20, 30}

\* self.interval = 60.0 / max(rpm, 1)
Interval(r) == 60 \div Max(r, 1)

\* self._next_slot = max(now, self._next_slot) + self.interval; "now" is the
\* reading taken before the sleep, woke (the clock at this line) is not used
NextSlot(n, slot, iv, woke) == Max(n, slot) + iv

Callers == 1..MaxCallers

\* the clock reading of a return of wait() is appended, the last two are kept
Granted(g, t) == IF Len(g) < 2 THEN Append(g, t) ELSE <<g[2], t>>

\* the variables of process_records while another specification runs
SyncIdle ==
    /\ concurrency = 0
    /\ template_known = TRUE
    /\ ppc = "entry"
    /\ sem = 0
    /\ pc = <<>>
    /\ attempt = <<>>
    /\ calls = <<>>
    /\ errs = <<>>
    /\ retval = <<>>
    /\ task = <<>>
    /\ texc = <<>>
    /\ doneq = <<>>
    /\ reluts = <<>>

\* the variables of SpecSync while another specification runs
SyncUnused ==
    /\ SyncIdle
    /\ max_retries = 0

\* RateLimiter.__init__: the first slot is the time of construction
InitRL ==
    /\ ParseUnused
    /\ SyncUnused
    /\ BatchUnused
    /\ LifeUnused
    /\ RetryUnused
    /\ records = <<>>
    /\ rl_lock = None
    /\ rpm \in RpmValues
    /\ clock = 0
    /\ next_slot = 0
    /\ rlpc = [c \in Callers |-> "idle"]
    /\ now = [c \in Callers |-> 0]
    /\ grants = <<>>

\* time passes
Tick ==
    /\ clock < MaxClock
    /\ clock' = clock + 1
    /\ UNCHANGED <<records, syncVars, batchVars, lifeVars, retryVars, parseVars, rpm, next_slot, rlpc, now,
                   grants>>

\* wait() 132-136: the caller takes the lock and reads the clock; when the
\* slot is already due it sets the marker and returns without suspending,
\* otherwise it starts asyncio.sleep(self._next_slot - now) holding the lock
WaitEnter(c) ==
    /\ rlpc[c] = "idle"
    /\ LockFree(rl_lock)
    /\ now' = [now EXCEPT ![c] = clock]
    /\ IF clock < next_slot
       THEN /\ rl_lock' = Some(c)
            /\ rlpc' = [rlpc EXCEPT ![c] = "sleeping"]
            /\ UNCHANGED <<next_slot, grants>>
       ELSE /\ next_slot' = NextSlot(clock, next_slot, Interval(rpm), clock)
            /\ grants' = Granted(grants, clock)
            /\ UNCHANGED <<rl_lock, rlpc>>
    /\ UNCHANGED <<records, concurrency, max_retries, template_known, ppc, sem,
                   pc, attempt, calls, errs, retval, task, texc, doneq, reluts,
                   rpm, clock, batchVars, lifeVars, retryVars, parseVars>>

\* wait() 135-136: the sleep ends, on time or late; the marker is set, the
\* lock released and wait() returns
WaitWake(c) ==
    /\ rlpc[c] = "sleeping"
    /\ clock >= now[c] + (next_slot - now[c])
    /\ next_slot' = NextSlot(now[c], next_slot, Interval(rpm), clock)
    /\ grants' = Granted(grants, clock)
    /\ rl_lock' = None
    /\ rlpc' = [rlpc EXCEPT ![c] = "idle"]
    /\ UNCHANGED <<records, concurrency, max_retries, template_known, ppc, sem,
                   pc, attempt, calls, errs, retval, task, texc, doneq, reluts,
                   rpm, clock, now, batchVars, lifeVars, retryVars, parseVars>>

NextRL ==
    \/ Tick
    \/ \E c \in Callers : WaitEnter(c)
    \/ \E c \in Callers : WaitWake(c)

SpecRL == InitRL /\ [][NextRL]_vars

----------------------------------------------------------------------------
(* SpecBatch: write_request_jsonl and parse_batch_results, batch_runner.py *)

\* natural ids as read_csv_records yields them (never empty): two plain ones
\* and one of the form <other id>__<k>
IdValues == {<<"A">>, <<"B">>, <<"A", "_", "_", "2">>}

BatchRecordLists ==
    UNION {{[i \in 1..n |-> Record(ids[i], i)] : ids \in [1..n -> IdValues]} :
           n \in 0..MaxBatchRecords}

\* dict.get(k, default) and d[k] = v on a dict held as a function
DictGet(d, k, default) == IF k \in DOMAIN d THEN d[k] ELSE default
DictPutKeepFirst(d, k, v) ==
    [x \in DOMAIN d \cup {k} |-> IF x \in DOMAIN d THEN d[x] ELSE v]

\* d[k] = v: a new key is added, the value of an existing key is replaced
DictPut(d, k, v) == [x \in DOMAIN d \cup {k} |-> IF x = k THEN v ELSE d[x]]

\* base_id = record.id_value or "row"
BaseId(rec) == IF rec.id_value = <<>> THEN <<"r", "o", "w">> ELSE rec.id_value

UniqueIdSuffixCount(base_id, count) ==
    IF count = 0 THEN base_id ELSE base_id \o <<"_", "_">> \o Decimal(count)

\* unique_id = base_id if count == 0 else f"{base_id}__{count+1}"
UniqueId(base_id, count) ==
    IF count = 0 THEN base_id ELSE base_id \o <<"_", "_">> \o Decimal(count + 1)

IdMapGetAnyRecord(idm, cid) ==
    IF DOMAIN idm = {} THEN None
    ELSE IF ~IsNone(cid) /\ The(cid) \in DOMAIN idm THEN Some(idm[The(cid)])
    ELSE Some(idm[CHOOSE k \in DOMAIN idm : TRUE])

\* record = id_map.get(custom_id)  (93): None for an absent or unknown key
IdMapGet(idm, cid) ==
    IF ~IsNone(cid) /\ The(cid) \in DOMAIN idm THEN Some(idm[The(cid)]) ELSE None

RecordRenamed(rec, unique_id) == [rec EXCEPT !.id_value = unique_id]

\* the record after an iteration of write_request_jsonl (47-54): it is read
\* (id_value, text) and stored in id_map, no attribute is assigned
RecordAfterWrite(rec, unique_id) == rec

\* a key no request line carries
UnknownKey == <<"Z">>

\* One line of the result artifact.  kind: blank, invalid (not JSON, or JSON
\* that is not an object) or entry; custom_id: absent or a key; response:
\* none, ok (content parses and normalises) or bad (content malformed);
\* error: absent or an error payload.
ArtifactLines ==
    {[kind |-> "blank", custom_id |-> None, response |-> "none", error |-> None],
     [kind |-> "invalid", custom_id |-> None, response |-> "none", error |-> None]}
    \cup
    [kind : {"entry"},
     custom_id : {None} \cup {Some(k) : k \in DOMAIN id_map \cup {UnknownKey}},
     response : {"none", "ok", "bad"},
     error : {None, Some("rate limited")}]

\* (record, None, "batch job returned nothing"), batch_runner.py 115
Missing(rec) == [rec |-> rec, ext |-> None, err |-> Some("batch job returned nothing")]

LineOutcomeResponseFirst(rec, line) ==
    IF line.response # "none"
    THEN IF line.response = "ok"
         THEN [rec |-> rec, ext |-> Some(Extraction(rec)), err |-> None]
         ELSE [rec |-> rec, ext |-> None,
               err |-> Some("Expecting value: line 1 column 1 (char 0)")]
    ELSE IF ~IsNone(line.error)
         THEN [rec |-> rec, ext |-> None, err |-> line.error]
         ELSE [rec |-> rec, ext |-> None, err |-> Some("unknown error")]

\* batch_runner.py 96-110: the outcome tuple of a matched line
LineOutcome(rec, line) ==
    IF line.response # "none" /\ IsNone(line.error)
    THEN IF line.response = "ok"
         THEN [rec |-> rec, ext |-> Some(Extraction(rec)), err |-> None]
         ELSE [rec |-> rec, ext |-> None,
               err |-> Some("Expecting value: line 1 column 1 (char 0)")]
    ELSE IF ~IsNone(line.error)
         THEN [rec |-> rec, ext |-> None, err |-> line.error]
         ELSE [rec |-> rec, ext |-> None, err |-> Some("unknown error")]

InitBatch ==
    /\ ParseUnused
    /\ SyncUnused
    /\ RLUnused
    /\ LifeUnused
    /\ RetryUnused
    /\ rl_lock = None
    /\ records \in BatchRecordLists
    /\ bpc = "write"
    /\ seen_counts = <<>>
    /\ id_map = <<>>
    /\ custom_ids = <<>>
    /\ nlines = 0
    /\ echoed = {}
    /\ dropped = 0
    /\ results_dict = <<>>
    /\ ordered = <<>>

\* write_request_jsonl 47-54: one iteration of the loop over records
WriteRequest ==
    /\ bpc = "write"
    /\ Len(custom_ids) < Len(records)
    /\ LET record == records[Len(custom_ids) + 1]
           base_id == BaseId(record)
           count == DictGet(seen_counts, base_id, 0)
           unique_id == UniqueId(base_id, count)
       IN  /\ seen_counts' = DictPut(seen_counts, base_id, count + 1)
           /\ id_map' = DictPut(id_map, unique_id, record)
           /\ custom_ids' = Append(custom_ids, unique_id)
           /\ records' = [records EXCEPT ![Len(custom_ids) + 1] =
                              RecordAfterWrite(record, unique_id)]
    /\ UNCHANGED <<syncVars, rlVars, lifeVars, retryVars, parseVars, bpc, nlines, echoed, dropped, results_dict,
                   ordered>>

\* write_request_jsonl 55: the loop is over, (path, id_map) is returned and
\* the job's result artifact is handed to parse_batch_results
WriteDone ==
    /\ bpc = "write"
    /\ Len(custom_ids) = Len(records)
    /\ bpc' = "parse"
    /\ UNCHANGED <<records, syncVars, rlVars, lifeVars, retryVars, parseVars, seen_counts, id_map, custom_ids,
                   nlines, echoed, dropped, results_dict, ordered>>

\* parse_batch_results 88-110: one iteration of the loop over the lines
ParseLine(line) ==
    /\ bpc = "parse"
    /\ nlines < MaxLines
    /\ nlines' = nlines + 1
    /\ IF line.kind = "blank"
       THEN UNCHANGED <<bpc, echoed, dropped, results_dict>>
       ELSE IF line.kind = "invalid"
       THEN bpc' = "raised" /\ UNCHANGED <<echoed, dropped, results_dict>>
       ELSE /\ echoed' = echoed \cup {k \in DOMAIN id_map : line.custom_id = Some(k)}
            /\ dropped' = IF \E k \in DOMAIN id_map : line.custom_id = Some(k)
                          THEN dropped ELSE dropped + 1
            /\ bpc' = bpc
            /\ LET record == IdMapGet(id_map, line.custom_id)
               IN  IF ~IsNone(record)
                   THEN results_dict' =
                            DictPut(results_dict, The(record).id_value,
                                    LineOutcome(The(record), line))
                   ELSE UNCHANGED results_dict
    /\ UNCHANGED <<records, syncVars, rlVars, lifeVars, retryVars, parseVars, seen_counts, id_map, custom_ids,
                   ordered>>

\* parse_batch_results 112-117: the artifact is exhausted, one tuple per record
ParseFinish ==
    /\ bpc = "parse"
    /\ ordered' = [i \in 1..Len(records) |->
                     DictGet(results_dict, records[i].id_value, Missing(records[i]))]
    /\ bpc' = "returned"
    /\ UNCHANGED <<records, syncVars, rlVars, lifeVars, retryVars, parseVars, seen_counts, id_map, custom_ids,
                   nlines, echoed, dropped, results_dict>>

NextBatch ==
    \/ WriteRequest
    \/ WriteDone
    \/ \E line \in ArtifactLines : ParseLine(line)
    \/ ParseFinish

SpecBatch == InitBatch /\ [][NextBatch]_vars

----------------------------------------------------------------------------
(* SpecRetry: _call_with_retry, sync_runner.py 158-196, with its delays *)

\* retry_backoff settings (the default is 2.0)
BackoffValues == {1, 2, 3}

\* str(exc): its words and, optionally, a retry hint in one of the forms
\* _extract_429_retry_delay looks for ("retry in <num>s", "retryDelay: <num>s"),
\* with the characters of <num>
Hint(form, num) == Some([form |-> form, num |-> num])
Msg(words, hint) == [words |-> words, hint |-> hint]

ErrorMessages ==
    {Msg(<<"Connection", "error.">>, None),
     Msg(<<"Error", "code:", "429">>, None),
     Msg(<<"429">>, Hint("retry in", <<"0">>)),
     Msg(<<"429">>, Hint("retry in", <<"5">>)),
     Msg(<<"RESOURCE_EXHAUSTED">>, Hint("retryDelay", <<"1", "1", "9">>)),
     Msg(<<"Quota", "exceeded">>, None),
     Msg(<<"resource_exhausted">>, None),
     Msg(<<"429">>, Hint("retry in", <<".">>)),
     Msg(<<"timed", "out">>, Hint("retry in", <<"5">>))}

\* str.lower() on the words that occur in ErrorMessages
Lower(w) ==
    CASE w = "Quota" -> "quota"
      [] w = "RESOURCE_EXHAUSTED" -> "resource_exhausted"
      [] w = "Connection" -> "connection"
      [] w = "Error" -> "error"
      [] OTHER -> w

\* "<w>" in error_str and "<w>" in error_str.lower()
Contains(words, w) == \E i \in DOMAIN words : words[i] = w
ContainsLower(words, w) == \E i \in DOMAIN words : Lower(words[i]) = w

\* is_429, line 176
Is429(m) ==
    \/ Contains(m.words, "429")
    \/ Contains(m.words, "RESOURCE_EXHAUSTED")
    \/ ContainsLower(m.words, "quota")

IsDigit(c) == c \in {"0", "1", "2", "3", "4", "5", "6", "7", "8", "9"}

DigitValue(c) ==
    CASE c = "0" -> 0 [] c = "1" -> 1 [] c = "2" -> 2 [] c = "3" -> 3
      [] c = "4" -> 4 [] c = "5" -> 5 [] c = "6" -> 6 [] c = "7" -> 7
      [] c = "8" -> 8 [] c = "9" -> 9

RECURSIVE NumberOf(_)
NumberOf(cs) ==
    IF cs = <<>> THEN 0
    ELSE NumberOf(SubSeq(cs, 1, Len(cs) - 1)) * 10 + DigitValue(cs[Len(cs)])

\* float(match.group(1)) for a group of digits and dots: the number, or None
\* for the ValueError that makes the loop continue (whole numbers only)
Float(cs) ==
    IF cs # <<>> /\ \A i \in DOMAIN cs : IsDigit(cs[i])
    THEN Some(NumberOf(cs)) ELSE None

RECURSIVE LeadingDigits(_)
\* what (\d+) captures at the start of cs
LeadingDigits(cs) ==
    IF cs = <<>> \/ ~IsDigit(cs[1]) THEN <<>>
    ELSE <<cs[1]>> \o LeadingDigits(Tail(cs))

\* _extract_429_retry_delay 139-155: the first pattern reads a "retry in"
\* hint; a retryDelay hint is read by the second pattern when its number
\* starts with a digit, else by the third
ExtractDelay(m) ==
    IF IsNone(m.hint) THEN None
    ELSE LET h == The(m.hint)
         IN  IF h.form = "retry in" THEN Float(h.num)
             ELSE IF LeadingDigits(h.num) # <<>> THEN Float(LeadingDigits(h.num))
             ELSE Float(h.num)

RECURSIVE Pow(_, _)
\* b ** a
Pow(b, a) == IF a = 0 THEN 1 ELSE b * Pow(b, a - 1)

Min(a, b) == IF a <= b THEN a ELSE b

\* "if suggested_delay:" (184): None and 0.0 are both false
Truthy(o) == ~IsNone(o) /\ The(o) # 0

GenericDelayLinear(b, a) == b * (a + 1)

\* delay = backoff ** attempt (194)
GenericDelay(b, a) == Pow(b, a)

\* 183-191
QuotaDelay(m, b, a) ==
    LET suggested_delay == ExtractDelay(m)
    IN  IF Truthy(suggested_delay)
        THEN Min(The(suggested_delay) + 2, 120)
        ELSE Pow(b, a) * 10

\* the argument of asyncio.sleep(delay), line 196
Delay(m, b, a) == IF Is429(m) THEN QuotaDelay(m, b, a) ELSE GenericDelay(b, a)

InitRetry ==
    /\ ParseUnused
    /\ SyncIdle
    /\ RLUnused
    /\ BatchUnused
    /\ LifeUnused
    /\ rl_lock = None
    /\ records = <<>>
    /\ max_retries \in -1..MaxFrameRetries
    /\ backoff \in BackoffValues
    /\ rpc = "loop"
    /\ r_attempt = 0
    /\ r_errs = <<>>
    /\ delays = <<>>

\* 166: range(max_retries + 1) is exhausted (only when it is empty: the last
\* iteration returns or raises), the function returns None
FrameLoopExit ==
    /\ rpc = "loop"
    /\ ~LoopContinues(r_attempt, max_retries)
    /\ rpc' = "returned"
    /\ UNCHANGED <<records, syncVars, rlVars, batchVars, lifeVars, parseVars, backoff,
                   r_attempt, r_errs, delays>>

\* 167-169: ratelimiter.wait() returns and the call is issued
FrameWait ==
    /\ rpc = "loop"
    /\ LoopContinues(r_attempt, max_retries)
    /\ rpc' = "call"
    /\ UNCHANGED <<records, syncVars, rlVars, batchVars, lifeVars, parseVars, backoff,
                   r_attempt, r_errs, delays>>

\* 169-173: chat_completion returns
FrameReturn ==
    /\ rpc = "call"
    /\ rpc' = "returned"
    /\ UNCHANGED <<records, syncVars, rlVars, batchVars, lifeVars, parseVars, backoff,
                   r_attempt, r_errs, delays>>

\* 174-196: chat_completion raises an exception whose str() is m
FrameRaise(m) ==
    /\ rpc = "call"
    /\ r_errs' = Append(r_errs, m)
    /\ IF RetryRaises(r_attempt, max_retries)
       THEN rpc' = "raised" /\ UNCHANGED delays
       ELSE /\ delays' = Append(delays, Delay(m, backoff, r_attempt))
            /\ rpc' = "sleep"
    /\ UNCHANGED <<records, syncVars, rlVars, batchVars, lifeVars, parseVars, backoff,
                   r_attempt>>

\* 196 and 166: the sleep ends, the loop takes the next attempt
FrameSleepEnd ==
    /\ rpc = "sleep"
    /\ r_attempt' = r_attempt + 1
    /\ rpc' = "loop"
    /\ UNCHANGED <<records, syncVars, rlVars, batchVars, lifeVars, parseVars, backoff,
                   r_errs, delays>>

NextRetry ==
    \/ FrameLoopExit
    \/ FrameWait
    \/ FrameReturn
    \/ \E m \in ErrorMessages : FrameRaise(m)
    \/ FrameSleepEnd

SpecRetry == InitRetry /\ [][NextRetry]_vars

----------------------------------------------------------------------------
(* SpecLife: run_batch 120-231 and poll_batch 58-76, batch_runner.py *)

\* get_provider(): a known provider name or None for a custom base_url
Providers == {Some("siliconflow"), Some("aliyun"), Some("openai"),
              Some("deepseek"), None}

ProviderUnsupportedNever(p) == FALSE

\* provider not in {"siliconflow", "aliyun", "openai"} (136)
ProviderUnsupported(p) ==
    p \notin {Some("siliconflow"), Some("aliyun"), Some("openai")}

\* what read_csv_records yields: nothing or one record
LifeRecordLists == {<<>>, <<Record(RowId(1), 1)>>}

\* the "status" field of a job as the provider reports it ("expired" stands
\* for any value the code does not name)
StatusValues == {"validating", "queued", "in_progress", "completed",
                 "failed", "cancelled", "expired"}

\* the "output_file_id" field: absent, empty or an id
OutputIds == {None, Some(""), Some("file-out")}

\* what retrieve_batch returns
Snapshots == [status : StatusValues, output_file_id : OutputIds]

\* what upload_jsonl returns: "id" at top level and "id" under "data"
UploadResponses == [id : {None, Some(""), Some("file-top")},
                    data_id : {None, Some("file-data")}]

\* truth value of an optional string: None and "" are false
NonEmpty(o) == ~IsNone(o) /\ The(o) # ""

\* x or y
Or(x, y) == IF NonEmpty(x) THEN x ELSE y

FileIdTopOnly(resp) == resp.id

\* file_info.get("id") or file_info.get("data", {}).get("id")  (167-170)
FileId(resp) == Or(resp.id, resp.data_id)

CaughtAlways(op) == TRUE

\* the only client call of run_batch inside a try/except is download_file
\* (214-218); an exception of any other call leaves run_batch
Caught(op) == op = "download_file"

PollSleepNone(interval) == 0

\* poll_batch 75: time.sleep(interval), the whole interval
PollSleepSecs(interval) == interval

PollReturnsCompletedOnly(state) == state = "completed"

\* poll_batch 65-70: the two branches that return the snapshot
PollReturns(state) == state = "completed" \/ state \in {"failed", "cancelled"}

\* poll_interval of run_batch (130), passed to poll_batch as interval
PollInterval == 15

ReturnsWithoutResultsFailedOnly(state) == state = "failed"

\* if status.get("status") != "completed"  (196)
ReturnsWithoutResults(state) == state # "completed"

NoOutputFileIdNever(o) == FALSE

\* if not output_file_id  (201 and 209)
NoOutputFileId(o) == ~NonEmpty(o)

\* range(6) of the re-query loop (202)
IdRetries == 6

IdRetrySleepFlat(a) == 2

\* time.sleep(2.0 * (attempt + 1))  (203)
IdRetrySleep(a) == 2 * (a + 1)

\* range(8) of the download loop (213)
DownloadAttempts == 8

DownloadRetrySleepFlat(a) == 2

\* time.sleep(2.0 * (attempt + 1))  (218)
DownloadRetrySleep(a) == 2 * (a + 1)

\* entries of the log: a call or file step (ok: it returned), or a sleep
Call(op, arg, ok) == [op |-> op, arg |-> arg, secs |-> 0, ok |-> ok]
Sleep(secs) == [op |-> "sleep", arg |-> None, secs |-> secs, ok |-> TRUE]

\* the dict run_batch returns (197, 231)
RunResult(st, res) == [batch |-> "batch", status |-> st, results |-> res]

InitLife ==
    /\ ParseUnused
    /\ SyncUnused
    /\ RLUnused
    /\ BatchUnused
    /\ RetryUnused
    /\ rl_lock = None
    /\ records \in LifeRecordLists
    /\ provider \in Providers
    /\ has_key \in BOOLEAN
    /\ lpc = "entry"
    /\ file_id = None
    /\ status = None
    /\ poll_result = None
    /\ output_file_id = None
    /\ poll_count = 0
    /\ id_attempt = 0
    /\ dl_attempt = 0
    /\ log = <<>>
    /\ lerr = None
    /\ result = None

\* what no step of run_batch changes
lifeFrame == <<records, syncVars, rlVars, batchVars, retryVars, parseVars,
               provider, has_key>>

\* 132-141: the provider check
CheckProvider ==
    /\ lpc = "entry"
    /\ IF ProviderUnsupported(provider)
       THEN lpc' = "raised" /\ lerr' = Some("unsupported provider")
       ELSE lpc' = "read" /\ UNCHANGED lerr
    /\ UNCHANGED <<lifeFrame, file_id, status, poll_result, output_file_id,
                   poll_count, id_attempt, dl_attempt, log, result>>

\* 143-153: read_csv_records, then "if not records: raise"
ReadRecords ==
    /\ lpc = "read"
    /\ IF records = <<>>
       THEN lpc' = "raised" /\ lerr' = Some("no records read")
       ELSE lpc' = "client" /\ UNCHANGED lerr
    /\ UNCHANGED <<lifeFrame, file_id, status, poll_result, output_file_id,
                   poll_count, id_attempt, dl_attempt, log, result>>

\* 157: SiliconClient(app_config) calls ensure_api_key, which raises when no
\* credential is configured
BuildClient ==
    /\ lpc = "client"
    /\ IF ~has_key
       THEN lpc' = "raised" /\ lerr' = Some("API key not set")
       ELSE lpc' = "write" /\ UNCHANGED lerr
    /\ UNCHANGED <<lifeFrame, file_id, status, poll_result, output_file_id,
                   poll_count, id_attempt, dl_attempt, log, result>>

\* 158-159: write_request_jsonl (its loop is in SpecBatch)
WriteRequestFile ==
    /\ lpc = "write"
    /\ log' = Append(log, Call("write_request_jsonl", None, TRUE))
    /\ lpc' = "upload"
    /\ UNCHANGED <<lifeFrame, file_id, status, poll_result, output_file_id,
                   poll_count, id_attempt, dl_attempt, lerr, result>>

\* 164-172: upload_jsonl returns resp; without a file id the run is over
Upload(resp) ==
    /\ lpc = "upload"
    /\ log' = Append(log, Call("upload_jsonl", None, TRUE))
    /\ file_id' = FileId(resp)
    /\ IF ~NonEmpty(file_id')
       THEN lpc' = "raised" /\ lerr' = Some("upload returned no file id")
       ELSE lpc' = "create" /\ UNCHANGED lerr
    /\ UNCHANGED <<lifeFrame, status, poll_result, output_file_id, poll_count,
                   id_attempt, dl_attempt, result>>

\* 178-194: create_batch(input_file_id=file_id, ...) returns; poll_batch starts
CreateBatch ==
    /\ lpc = "create"
    /\ log' = Append(log, Call("create_batch", file_id, TRUE))
    /\ poll_count' = 0
    /\ lpc' = "poll"
    /\ UNCHANGED <<lifeFrame, file_id, status, poll_result, output_file_id,
                   id_attempt, dl_attempt, lerr, result>>

\* poll_batch 61-63: retrieve_batch returns snap.  The provider may keep the
\* job unfinished for MaxPolls queries.
PollRetrieve(snap) ==
    /\ lpc = "poll"
    /\ PollReturns(snap.status) \/ poll_count < MaxPolls
    /\ log' = Append(log, Call("retrieve_batch", None, TRUE))
    /\ status' = Some(snap)
    /\ poll_count' = poll_count + 1
    /\ lpc' = "poll_check"
    /\ UNCHANGED <<lifeFrame, file_id, poll_result, output_file_id, id_attempt,
                   dl_attempt, lerr, result>>

\* poll_batch 65-75: return the snapshot, or start time.sleep(interval)
PollCheck ==
    /\ lpc = "poll_check"
    /\ IF PollReturns(The(status).status)
       THEN /\ poll_result' = status
            /\ lpc' = "polled"
            /\ UNCHANGED log
       ELSE /\ log' = Append(log, Sleep(PollSleepSecs(PollInterval)))
            /\ lpc' = "poll_sleep"
            /\ UNCHANGED poll_result
    /\ UNCHANGED <<lifeFrame, file_id, status, output_file_id, poll_count,
                   id_attempt, dl_attempt, lerr, result>>

\* poll_batch 75 and 60: the sleep ends, the loop goes round
PollSleepEnd ==
    /\ lpc = "poll_sleep"
    /\ lpc' = "poll"
    /\ UNCHANGED <<lifeFrame, file_id, status, poll_result, output_file_id,
                   poll_count, id_attempt, dl_attempt, log, lerr, result>>

\* 196-201: a job that is not completed ends the run without results;
\* otherwise the snapshot's output_file_id is taken
AfterPoll ==
    /\ lpc = "polled"
    /\ IF ReturnsWithoutResults(The(status).status)
       THEN /\ result' = Some(RunResult(The(status), None))
            /\ lpc' = "returned"
            /\ UNCHANGED output_file_id
       ELSE /\ output_file_id' = The(status).output_file_id
            /\ lpc' = IF NoOutputFileId(output_file_id')
                      THEN "id_loop" ELSE "download"
            /\ UNCHANGED result
    /\ UNCHANGED <<lifeFrame, file_id, status, poll_result, poll_count,
                   id_attempt, dl_attempt, log, lerr>>

\* 202-203 and 209-210: the next iteration starts with its sleep; when
\* range(6) is exhausted the check of line 209 follows
IdLoop ==
    /\ lpc = "id_loop"
    /\ IF id_attempt < IdRetries
       THEN /\ log' = Append(log, Sleep(IdRetrySleep(id_attempt)))
            /\ lpc' = "id_query"
            /\ UNCHANGED lerr
       ELSE /\ IF NoOutputFileId(output_file_id)
               THEN lpc' = "raised" /\ lerr' = Some("no result file yet")
               ELSE lpc' = "download" /\ UNCHANGED lerr
            /\ UNCHANGED log
    /\ UNCHANGED <<lifeFrame, file_id, status, poll_result, output_file_id,
                   poll_count, id_attempt, dl_attempt, result>>

\* 204-208: retrieve_batch returns snap; an id ends the loop
IdQuery(snap) ==
    /\ lpc = "id_query"
    /\ log' = Append(log, Call("retrieve_batch", None, TRUE))
    /\ output_file_id' = snap.output_file_id
    /\ IF NonEmpty(output_file_id')
       THEN /\ status' = Some(snap)
            /\ lpc' = "download"
            /\ UNCHANGED id_attempt
       ELSE /\ id_attempt' = id_attempt + 1
            /\ lpc' = "id_loop"
            /\ UNCHANGED status
    /\ UNCHANGED <<lifeFrame, file_id, poll_result, poll_count, dl_attempt,
                   lerr, result>>

\* 215-216: download_file returns the artifact
DownloadOk ==
    /\ lpc = "download"
    /\ log' = Append(log, Call("download_file", output_file_id, TRUE))
    /\ lpc' = "parse"
    /\ UNCHANGED <<lifeFrame, file_id, status, poll_result, output_file_id,
                   poll_count, id_attempt, dl_attempt, lerr, result>>

\* 217-220: download_file raises, the loop sleeps and goes round; when
\* range(8) is exhausted the else clause raises
DownloadFails ==
    /\ lpc = "download"
    /\ IF Caught("download_file")
       THEN /\ log' = log \o <<Call("download_file", output_file_id, FALSE),
                                Sleep(DownloadRetrySleep(dl_attempt))>>
            /\ dl_attempt' = dl_attempt + 1
            /\ IF dl_attempt + 1 < DownloadAttempts
               THEN lpc' = "download" /\ UNCHANGED lerr
               ELSE lpc' = "raised" /\ lerr' = Some("result file not available")
       ELSE /\ log' = Append(log, Call("download_file", output_file_id, FALSE))
            /\ lpc' = "raised"
            /\ lerr' = Some("transport error")
            /\ UNCHANGED dl_attempt
    /\ UNCHANGED <<lifeFrame, file_id, status, poll_result, output_file_id,
                   poll_count, id_attempt, result>>

\* 223: parse_batch_results returns the outcome list or raises
ParseResults(ok) ==
    /\ lpc = "parse"
    /\ log' = Append(log, Call("parse_batch_results", None, ok))
    /\ IF ok
       THEN lpc' = "write_out" /\ UNCHANGED lerr
       ELSE lpc' = "raised" /\ lerr' = Some("result artifact not parsable")
    /\ UNCHANGED <<lifeFrame, file_id, status, poll_result, output_file_id,
                   poll_count, id_attempt, dl_attempt, result>>

\* 225-231: write_outputs, then the run returns its results
WriteOutputs ==
    /\ lpc = "write_out"
    /\ log' = Append(log, Call("write_outputs", None, TRUE))
    /\ result' = Some(RunResult(The(status), Some("parsed")))
    /\ lpc' = "returned"
    /\ UNCHANGED <<lifeFrame, file_id, status, poll_result, output_file_id,
                   poll_count, id_attempt, dl_attempt, lerr>>

\* upload_jsonl (164), create_batch (180-189) or retrieve_batch (61, 204)
\* raises: nothing catches it, run_batch is left
TransportRaises ==
    /\ lpc \in {"upload", "create", "poll", "id_query"}
    /\ LET op == CASE lpc = "upload" -> "upload_jsonl"
                    [] lpc = "create" -> "create_batch"
                    [] OTHER -> "retrieve_batch"
       IN  /\ log' = Append(log, Call(op, IF op = "create_batch" THEN file_id
                                          ELSE None, FALSE))
           /\ IF Caught(op)
              THEN UNCHANGED <<lpc, lerr>>
              ELSE lpc' = "raised" /\ lerr' = Some("transport error")
    /\ UNCHANGED <<lifeFrame, file_id, status, poll_result, output_file_id,
                   poll_count, id_attempt, dl_attempt, result>>

NextLife ==
    \/ CheckProvider
    \/ ReadRecords
    \/ BuildClient
    \/ WriteRequestFile
    \/ \E resp \in UploadResponses : Upload(resp)
    \/ CreateBatch
    \/ \E snap \in Snapshots : PollRetrieve(snap)
    \/ PollCheck
    \/ PollSleepEnd
    \/ AfterPoll
    \/ IdLoop
    \/ \E snap \in Snapshots : IdQuery(snap)
    \/ DownloadOk
    \/ DownloadFails
    \/ \E ok \in BOOLEAN : ParseResults(ok)
    \/ WriteOutputs
    \/ TransportRaises

SpecLife == InitLife /\ [][NextLife]_vars

\* run_batch is sequential code: whenever a step is possible, one is taken
SpecLifeFair == SpecLife /\ WF_vars(NextLife)

----------------------------------------------------------------------------
(* SpecParse: normalise_extraction, schema.py 36-71, and the parse step of  *)
(* the sync worker (sync_runner.py 217-224) and of parse_batch_results      *)
(* (batch_runner.py 98-107)                                                 *)

\* JSON values; a string is the sequence of its characters
JNull == [t |-> "null", v |-> <<>>]
JStr(cs) == [t |-> "str", v |-> cs]
JNum == [t |-> "num", v |-> <<"0">>]
JBool == [t |-> "bool", v |-> <<"f", "a", "l", "s", "e">>]
JList == [t |-> "list", v |-> <<"[", "]">>]

\* marks a key the object does not have
JMissing == [t |-> "missing", v |-> <<>>]

\* names of template fields (templates.py 89-110)
FieldNames == <<"modality", "exam_overview", "renal_status",
                "radioactive_findings">>

\* TEMPLATES (templates.py 274-278): a template with MaxFields fields and one
\* with a single field
TemplateIds == {"rcc", "generic"}

\* template.fields, as field names
TemplateFields(tid) ==
    IF tid = "rcc" THEN SubSeq(FieldNames, 1, MaxFields)
    ELSE SubSeq(FieldNames, 1, 1)

FieldSet(tid) == {TemplateFields(tid)[i] : i \in DOMAIN TemplateFields(tid)}

\* the keys a raw object of the model may hold
RawFieldKeys == {FieldNames[i] : i \in 1..MaxFields}
RawKeys == RawFieldKeys \cup {"id_value", "id"}

\* what the model may put under a field, under "id_value" and under "id"
FieldValues == {JMissing, JNull, JStr(<<>>), JStr(<<" ">>), JStr(<<" ", "x", " ">>),
                JStr(<<"x">>), JNum, JBool, JList}
IdValueValues == {JMissing, JNull, JStr(<<"A">>), JStr(<<" ", "B">>), JNum}
IdKeyValues == {JMissing, JStr(<<"B">>)}

\* the JSON objects json.loads may return
RawObjects ==
    {[k \in RawKeys |-> IF k = "id_value" THEN iv
                        ELSE IF k = "id" THEN i
                        ELSE f[k]] :
        f \in [RawFieldKeys -> FieldValues], iv \in IdValueValues,
        i \in IdKeyValues}

\* the message content: text that is no JSON, JSON that is no object, or an
\* object
Contents ==
    {[kind |-> "not_json", raw |-> <<>>], [kind |-> "not_object", raw |-> <<>>]}
    \cup {[kind |-> "object", raw |-> r] : r \in RawObjects}

\* dict.get(k): None for a missing key
Get(raw, k) == IF k \notin DOMAIN raw \/ raw[k] = JMissing THEN JNull ELSE raw[k]

\* dict.setdefault(k, v)
SetDefault(raw, k, v) ==
    IF raw[k] = JMissing THEN [raw EXCEPT ![k] = v] ELSE raw

RECURSIVE LStrip(_)
LStrip(cs) == IF cs # <<>> /\ cs[1] = " " THEN LStrip(Tail(cs)) ELSE cs

RECURSIVE RStrip(_)
RStrip(cs) ==
    IF cs # <<>> /\ cs[Len(cs)] = " " THEN RStrip(SubSeq(cs, 1, Len(cs) - 1))
    ELSE cs

\* str.strip()
Strip(cs) == RStrip(LStrip(cs))

\* _clean_str 36-40: the stripped text, or None when nothing is left
CleanStr(value) ==
    IF value.t = "str"
    THEN IF Strip(value.v) # <<>> THEN Some(Strip(value.v)) ELSE None
    ELSE None

NormFieldUnstripped(value) ==
    IF value.t # "null" THEN value ELSE JStr(<<>>)

\* normalise_extraction 61-69: what is stored under one field
NormField(value) ==
    IF value.t # "null"
    THEN IF value.t = "str"
         THEN JStr(IF ~IsNone(CleanStr(value)) THEN The(CleanStr(value)) ELSE <<>>)
         ELSE value
    ELSE JStr(<<>>)

\* normalise_extraction 52-56: result.id_value
NormId(raw) ==
    IF Get(raw, "id_value").t = "str" THEN Strip(Get(raw, "id_value").v)
    ELSE IF Get(raw, "id").t = "str" THEN Strip(Get(raw, "id").v)
    ELSE <<>>

\* normalise_extraction 43-71: an ExtractionResult (id_value, _data)
NormaliseExtraction(raw, tid) ==
    [id_value |-> NormId(raw),
     data |-> [f \in FieldSet(tid) |-> NormField(Get(raw, f))]]

SetIdKeepsModelId(res, id) == res

\* result.id_value = record.id_value (sync_runner.py 221, batch_runner.py 104)
SetId(res, id) == [res EXCEPT !.id_value = id]

\* sync_runner.py 217-224: the worker's (extraction, error) for a content
WorkerParse(rec, c, tid) ==
    IF c.kind = "not_json"
    THEN [ext |-> None, err |-> ParseError("not_json")]
    ELSE IF c.kind = "not_object"
    THEN [ext |-> None, err |-> ParseError("not_object")]
    ELSE LET data == SetDefault(c.raw, "id_value", JStr(rec.id_value))
             res == NormaliseExtraction(data, tid)
         IN  [ext |-> Some(SetId(res, rec.id_value)), err |-> None]

BatchParseKeepsModelId(rec, c, tid) ==
    IF c.kind = "not_json"
    THEN [ext |-> None, err |-> Some("Expecting value: line 1 column 1 (char 0)")]
    ELSE IF c.kind = "not_object"
    THEN [ext |-> None, err |-> Some("'list' object has no attribute 'setdefault'")]
    ELSE LET data == SetDefault(c.raw, "id_value", JStr(rec.id_value))
         IN  [ext |-> Some(NormaliseExtraction(data, tid)), err |-> None]

\* batch_runner.py 100-107: the (extraction, error) of a line whose response
\* carries the content
BatchParse(rec, c, tid) ==
    IF c.kind = "not_json"
    THEN [ext |-> None, err |-> Some("Expecting value: line 1 column 1 (char 0)")]
    ELSE IF c.kind = "not_object"
    THEN [ext |-> None, err |-> Some("'list' object has no attribute 'setdefault'")]
    ELSE LET data == SetDefault(c.raw, "id_value", JStr(rec.id_value))
             extraction == NormaliseExtraction(data, tid)
         IN  [ext |-> Some(SetId(extraction, rec.id_value)), err |-> None]

InitParse ==
    /\ SyncUnused
    /\ RLUnused
    /\ BatchUnused
    /\ LifeUnused
    /\ RetryUnused
    /\ rl_lock = None
    /\ records = <<Record(<<"A">>, 1)>>
    /\ template_id \in TemplateIds
    /\ content \in {Some(c) : c \in Contents}
    /\ sync_out = None
    /\ batch_out = None

\* the sync worker parses the content
SyncParse ==
    /\ IsNone(sync_out)
    /\ sync_out' = Some(WorkerParse(records[1], The(content), template_id))
    /\ UNCHANGED <<records, syncVars, rlVars, batchVars, lifeVars, retryVars,
                   template_id, content, batch_out>>

\* parse_batch_results parses the content of a matched line
BatchParseLine ==
    /\ IsNone(batch_out)
    /\ batch_out' = Some(BatchParse(records[1], The(content), template_id))
    /\ UNCHANGED <<records, syncVars, rlVars, batchVars, lifeVars, retryVars,
                   template_id, content, sync_out>>

NextParse ==
    \/ SyncParse
    \/ BatchParseLine

SpecParse == InitParse /\ [][NextParse]_vars

----------------------------------------------------------------------------
(* Claims about the sync path, checked under SpecSync *)

\* C1: when process_records returns, the list has one outcome per record and
\* its i-th outcome is the outcome of the i-th input record (input order).
SyncOrderPreserved ==
    ppc = "returned" =>
        /\ Len(reluts) = Len(records)
        /\ \A i \in Workers : reluts[i].rec = records[i]

\* C3: with a concurrency bound C >= 1, at most C workers are inside the
\* admitted section, so at most C chat_completion calls are in flight.
BoundedConcurrency ==
    (ppc # "entry" /\ concurrency >= 1) =>
        /\ Cardinality(Admitted) <= concurrency
        /\ Cardinality(InFlight) <= concurrency

\* C3 witness: the bound is reached after a failed call while a worker waits
\* for admission.
BoundedConcurrencyWitness ==
    /\ concurrency >= 1
    /\ Cardinality(Admitted) = concurrency
    /\ \E i \in Workers : pc[i] = "init"
    /\ \E i \in Workers : pc[i] = "call" /\ errs[i] # <<>>

\* C5: _call_with_retry issues at most max_retries + 1 chat_completion calls
\* for a record, and at least one when max_retries >= 0.
AttemptBound ==
    \A i \in Workers :
        /\ calls[i] <= Max(max_retries + 1, 0)
        /\ (pc[i] = "leave" /\ max_retries >= 0) => calls[i] >= 1

\* C5 witness: a worker used every permitted attempt, retries included.
AttemptBoundWitness ==
    \E i \in Workers :
        pc[i] = "leave" /\ max_retries >= 1 /\ calls[i] = max_retries + 1

\* C6: process_records returns exactly one outcome per input record, and each
\* outcome has either an extraction and no error, or no extraction and an
\* error string.
ExactlyOneOutcome ==
    ppc = "returned" =>
        /\ Len(reluts) = Len(records)
        /\ \A i \in Workers :
              Cardinality({k \in DOMAIN reluts : reluts[k].rec = records[i]}) = 1
        /\ \A k \in DOMAIN reluts :
              IsNone(reluts[k].ext) # IsNone(reluts[k].err)

\* C6 witness: a returned list that holds a success and a failure.
ExactlyOneOutcomeWitness ==
    /\ ppc = "returned"
    /\ \E k \in DOMAIN reluts : ~IsNone(reluts[k].ext)
    /\ \E k \in DOMAIN reluts : ~IsNone(reluts[k].err)

\* C7: when _call_with_retry leaves by raising, every permitted attempt
\* failed and the exception is that of the last attempt; when it leaves by
\* returning a response, that was attempt k+1 after k <= max_retries failures.
RetryResult ==
    \A i \in Workers :
        pc[i] = "leave" =>
            LET rv == retval[i]
                k == Len(errs[i])
            IN  /\ rv.kind = "raise" =>
                      /\ k = max_retries + 1
                      /\ calls[i] = k
                      /\ rv.val = errs[i][k]
                /\ (rv.kind = "return" /\ rv.val # "None") =>
                      /\ k <= max_retries
                      /\ calls[i] = k + 1
                      /\ rv.val \in Responses

\* C7 witness: retries are exhausted and the last error differs from the first.
RetryResultWitness ==
    \E i \in Workers :
        /\ pc[i] = "leave"
        /\ retval[i].kind = "raise"
        /\ Len(errs[i]) >= 2
        /\ errs[i][1] # errs[i][Len(errs[i])]

\* C8: an exception inside a worker becomes that record's (None, error)
\* outcome; it never leaves the worker task, so process_records raises only
\* before any worker ran, and the failed worker has given back its slot.
FailureIsolation ==
    /\ \A i \in Workers : IsNone(texc[i])
    /\ ppc = "raised" => \A i \in Workers : pc[i] = "init"
    /\ \A i \in Workers :
          (pc[i] = "done" /\ ~IsNone(WorkerException(retval[i]))) =>
              task[i] = Some([rec |-> records[i], ext |-> None,
                              err |-> WorkerException(retval[i])])
    /\ ppc \in {"gather", "returned"} =>
          sem + Cardinality(Admitted) = concurrency

\* C8 witness: a worker failed on unparsable content, finished first, and the
\* other worker still delivered a success.
FailureIsolationWitness ==
    /\ ppc = "returned"
    /\ Len(reluts) = 2
    /\ reluts[1].err = ParseError("not_json")
    /\ ~IsNone(reluts[2].ext)

\* C16: process_records ends for every accepted configuration: as long as it
\* has neither returned nor raised, some step of it or of a worker can be
\* taken (no state in which everything waits forever).
SyncTerminates ==
    ppc \in {"returned", "written", "raised"} \/ ENABLED NextSync

\* C17: a worker starts a chat_completion call only in the step that
\* completes its own RateLimiter.wait() (entered at the top of the loop, with
\* the limiter's lock free or held by itself), once per call; a backoff sleep
\* leads back to the top of the loop, never straight to a call.
RateLimitedAttempts ==
    [][\A i \in Workers :
          /\ (pc[i] # "call" /\ pc'[i] = "call") =>
                /\ pc[i] \in {"loop", "rl_sleep"}
                /\ pc[i] = "loop" => IsNone(rl_lock)
                /\ pc[i] = "rl_sleep" => (rl_lock = Some(i) /\ IsNone(rl_lock'))
                /\ calls'[i] = calls[i] + 1
                /\ attempt'[i] = attempt[i]
          /\ (pc[i] = "backoff" /\ pc'[i] # "backoff") =>
                (pc'[i] = "loop" /\ calls'[i] = calls[i])
          /\ calls'[i] > calls[i] => pc'[i] = "call"]_vars

\* C17 witness: the call of a retry is in flight, the second call of its worker.
RateLimitedAttemptsWitness ==
    \E i \in Workers :
        pc[i] = "call" /\ attempt[i] >= 1 /\ calls[i] = attempt[i] + 1

\* C33: a worker keeps its slot from admission until its last attempt has
\* returned or raised, through rate-limiter waits and backoff sleeps; the slot
\* is given back on success and on final failure alike, so the free slots
\* plus the admitted workers are always C and all C are free at the end.
SlotHeldAcrossRetries ==
    /\ [](ppc \in {"gather", "returned", "written"} =>
             sem + Cardinality({i \in Workers :
                                  pc[i] \in {"loop", "rl_sleep", "call",
                                             "backoff", "leave"}}) = concurrency)
    /\ [](ppc \in {"returned", "written"} => sem = concurrency)
    /\ [][\A i \in Workers :
             pc[i] \in {"loop", "rl_sleep", "call", "backoff"} =>
                 pc'[i] \in {"loop", "rl_sleep", "call", "backoff", "leave"}]_vars
    /\ [][ppc = "gather" =>
             /\ sem' > sem =>
                    /\ sem' = sem + 1
                    /\ \E i \in Workers :
                           /\ pc[i] = "leave" /\ pc'[i] = "done"
                           /\ retval[i].kind \in {"return", "raise"}
             /\ \A i \in Workers :
                    (pc[i] = "leave" /\ pc'[i] = "done") => sem' = sem + 1]_vars

\* C33 witness: with retries allowed one worker failed for good, another
\* succeeded, and every slot is free again.
SlotHeldAcrossRetriesWitness ==
    /\ ppc = "returned"
    /\ max_retries >= 1
    /\ concurrency >= 1
    /\ sem = concurrency
    /\ \E k \in DOMAIN reluts : reluts[k].err = Some("Error code: 429")
    /\ \E k \in DOMAIN reluts : ~IsNone(reluts[k].ext)

----------------------------------------------------------------------------
(* Claims about the rate limiter, checked under SpecRL *)

\* C4: any two consecutive returns of wait() are at least 60/max(rpm,1)
\* seconds apart on the clock, also when a sleep wakes late.
RateLimiterSpacing ==
    Len(grants) = 2 => grants[2] - grants[1] >= Interval(rpm)

\* C28: at most one caller at a time is between reading the clock and the
\* marker and writing the new marker (the sleep included): a sleeping caller
\* holds the lock, no second caller sleeps, and while a caller sleeps the
\* marker is written by that caller's wake only; every write moves the
\* marker, so no two callers compute their slot from the same marker value.
RateLimiterMutex ==
    /\ [](Cardinality({c \in Callers : rlpc[c] = "sleeping"}) <= 1)
    /\ [](\A c \in Callers : rlpc[c] = "sleeping" <=> rl_lock = Some(c))
    /\ [][\A c \in Callers :
             rlpc[c] = "sleeping" =>
                 /\ \A o \in Callers \ {c} : rlpc'[o] = rlpc[o] /\ now'[o] = now[o]
                 /\ next_slot' # next_slot => rlpc'[c] = "idle"]_vars
    /\ [][grants' # grants => next_slot' > next_slot]_vars

\* C28 witness: a caller holds the lock in a sleep that is overdue, so only
\* the lock keeps the other caller from reading the marker.
RateLimiterMutexWitness ==
    \E c \in Callers :
        /\ rlpc[c] = "sleeping"
        /\ rl_lock = Some(c)
        /\ clock > next_slot
        /\ \A o \in Callers \ {c} : rlpc[o] = "idle"

\* C29: each completed wait() sets the marker to one interval after the
\* later of the current time and the previous marker: the marker never
\* decreases, grows by at least one interval per grant, and when wait()
\* returns it is at least one interval ahead of the current time.
MarkerAdvance ==
    [][next_slot' # next_slot =>
          /\ next_slot' = Max(clock, next_slot) + Interval(rpm)
          /\ next_slot' >= next_slot + Interval(rpm)
          /\ next_slot' >= clock' + Interval(rpm)]_vars

----------------------------------------------------------------------------
(* Claims about the batch path, checked under SpecBatch *)

\* C2: parse_batch_results returns a list of length N whose i-th tuple
\* carries exactly the i-th input Record.
BatchAlignment ==
    bpc = "returned" =>
        /\ Len(ordered) = Len(records)
        /\ \A i \in 1..Len(records) : ordered[i].rec = records[i]

\* C9: the custom_id values written are pairwise distinct, id_map has exactly
\* N entries and maps the key of line i to the i-th record.
SubmissionKeysUnique ==
    bpc # "write" =>
        /\ \A i, j \in 1..Len(custom_ids) : i # j => custom_ids[i] # custom_ids[j]
        /\ Cardinality(DOMAIN id_map) = Len(records)
        /\ \A i \in 1..Len(records) : id_map[custom_ids[i]] = records[i]

\* C10: every input record whose own submission key appears in no artifact
\* line receives the Missing outcome.
MissingRowComplete ==
    bpc = "returned" =>
        \A i \in 1..Len(records) :
            custom_ids[i] \notin echoed => ordered[i] = Missing(records[i])

\* C20: the first record with a natural id gets that id as its custom_id, the
\* k-th record with the same natural id (k >= 2, in input order) gets
\* <id>__<k>.
DisambiguationRule ==
    \A i \in 1..Len(custom_ids) :
        LET id == records[i].id_value
            k == Cardinality({j \in 1..i : records[j].id_value = id})
        IN  custom_ids[i] = IF k = 1 THEN id
                            ELSE id \o <<"_", "_">> \o Decimal(k)

\* C20 witness: natural ids [A, A, B] were written as [A, A__2, B].
DisambiguationRuleWitness ==
    /\ bpc = "parse"
    /\ [i \in 1..Len(records) |-> records[i].id_value] = <<<<"A">>, <<"A">>, <<"B">>>>
    /\ custom_ids = <<<<"A">>, <<"A", "_", "_", "2">>, <<"B">>>>

\* the artifact lines that carry the submission key k
MatchedLines(k) ==
    [kind : {"entry"}, custom_id : {Some(k)}, response : {"none", "ok", "bad"},
     error : {None, Some("rate limited")}]

\* C34: results are merged by natural id, last line wins: every matched line
\* replaces the tuple kept for its record's natural id, whichever submission
\* key it came under, and at the end every input record with a natural id
\* that some line resolved to receives that one tuple, the last one built.
DuplicatesLastWins ==
    /\ [][\A k \in DOMAIN id_map : \A line \in MatchedLines(k) :
             (nlines' # nlines /\ k \in echoed' /\ ParseLine(line)) =>
                 LET id == id_map[k].id_value
                 IN  /\ id \in DOMAIN results_dict'
                     /\ results_dict'[id] = LineOutcome(id_map[k], line)
                     /\ \A o \in DOMAIN results_dict \ {id} :
                            results_dict'[o] = results_dict[o]]_vars
    /\ [](bpc = "returned" =>
             \A i \in 1..Len(records) :
                 records[i].id_value \in DOMAIN results_dict =>
                     ordered[i] = results_dict[records[i].id_value])
    /\ [](bpc = "returned" =>
             \A i, j \in 1..Len(records) :
                 (/\ records[i].id_value = records[j].id_value
                  /\ records[i].id_value \in DOMAIN results_dict) =>
                     ordered[i] = ordered[j])

\* C34 witness: two records share a natural id, lines came for both keys, and
\* both records received the tuple of the line for the second key.
DuplicatesLastWinsWitness ==
    /\ bpc = "returned"
    /\ Len(records) >= 2
    /\ records[1].id_value = records[2].id_value
    /\ {custom_ids[1], custom_ids[2]} \subseteq echoed
    /\ ordered[1] = ordered[2]
    /\ ordered[1].rec = records[2]
    /\ ~IsNone(ordered[1].ext)

\* C36: a matched line yields a Success outcome only with a non-empty
\* response, no error and content that parses and normalises; a line with an
\* error, with or without a response, yields Failure with that error's text;
\* a line with neither yields Failure with the "unknown error" text.
ErrorLineClassification ==
    [][\A k \in DOMAIN id_map : \A line \in MatchedLines(k) :
          (nlines' # nlines /\ k \in echoed' /\ ParseLine(line)) =>
              LET o == results_dict'[id_map[k].id_value]
              IN  /\ o.rec = id_map[k]
                  /\ ~IsNone(o.ext) <=>
                         (line.response = "ok" /\ IsNone(line.error))
                  /\ ~IsNone(o.ext) => IsNone(o.err)
                  /\ ~IsNone(line.error) =>
                         (IsNone(o.ext) /\ o.err = line.error)
                  /\ (IsNone(line.error) /\ line.response = "none") =>
                         (IsNone(o.ext) /\ o.err = Some("unknown error"))
                  /\ (IsNone(line.error) /\ line.response = "bad") =>
                         (IsNone(o.ext) /\ ~IsNone(o.err))]_vars

\* C36 witness: the returned list holds a Success, a Failure with the text of
\* the line's error and a Failure with the "unknown error" text.
ErrorLineClassificationWitness ==
    /\ bpc = "returned"
    /\ \E i \in DOMAIN ordered : ~IsNone(ordered[i].ext)
    /\ \E i \in DOMAIN ordered : ordered[i].err = Some("rate limited")
    /\ \E i \in DOMAIN ordered : ordered[i].err = Some("unknown error")

BatchNeverRaises ==
    /\ bpc # "raised"
    /\ bpc = "returned" => Len(ordered) = Len(records)

\* C24: a line whose custom_id is absent or no key of the id_map changes no
\* record's outcome: consuming it leaves results_dict, and so the returned
\* list, as they would be without the line.
UnmatchedDropped ==
    [][dropped' # dropped =>
          /\ results_dict' = results_dict
          /\ bpc' = bpc
          /\ ordered' = ordered
          /\ id_map' = id_map]_vars

\* C24 witness: after a matched line an unmatched one was consumed and the
\* list was returned.
UnmatchedDroppedWitness ==
    /\ bpc = "returned"
    /\ nlines = 2
    /\ dropped = 1
    /\ Cardinality(echoed) = 1
    /\ \E k \in DOMAIN ordered : ~IsNone(ordered[k].ext)

----------------------------------------------------------------------------
(* Claims about the retry delays, checked under SpecRetry *)

RECURSIVE SumSeq(_)
SumSeq(q) == IF q = <<>> THEN 0 ELSE Head(q) + SumSeq(Tail(q))

RECURSIVE SumPow(_, _)
\* sum(b^i for i in 0..k-1)
SumPow(b, k) == IF k = 0 THEN 0 ELSE SumPow(b, k - 1) + Pow(b, k - 1)

\* C18: the sleep after a generic failure of attempt a (zero-indexed,
\* a < max_retries) is backoff^a; a success after k generic failures has slept
\* sum(backoff^i for i in 0..k-1) in total; no sleep follows the final failure.
GenericBackoff ==
    /\ \A n \in 1..Len(delays) :
          ~Is429(r_errs[n]) => (n - 1 < max_retries /\ delays[n] = Pow(backoff, n - 1))
    /\ rpc = "raised" =>
          (Len(r_errs) = max_retries + 1 /\ Len(delays) = Len(r_errs) - 1)
    /\ (rpc = "returned" /\ \A n \in 1..Len(r_errs) : ~Is429(r_errs[n])) =>
          /\ Len(delays) = Len(r_errs)
          /\ SumSeq(delays) = SumPow(backoff, Len(r_errs))

\* C18 witness: a success after two generic failures with backoff 3 slept
\* 1 and then 3 seconds.
GenericBackoffWitness ==
    /\ rpc = "returned"
    /\ backoff = 3
    /\ Len(r_errs) = 2
    /\ \A n \in 1..2 : ~Is429(r_errs[n])
    /\ delays = <<1, 3>>

\* C19: after a quota-classified failure of a non-final attempt a the sleep
\* is min(s + 2, 120) when the message embeds a suggested delay of s seconds
\* (any s >= 0, 0 included), and backoff^a * 10 when it embeds none.
QuotaBackoff ==
    \A n \in 1..Len(delays) :
        Is429(r_errs[n]) =>
            LET s == ExtractDelay(r_errs[n])
            IN  delays[n] = IF ~IsNone(s) THEN Min(The(s) + 2, 120)
                            ELSE Pow(backoff, n - 1) * 10

\* the message carries a quota marker in some letter case
HasQuotaMarker(m) ==
    \E w \in {"429", "resource_exhausted", "quota"} : ContainsLower(m.words, w)

\* C31: a failure whose message contains 429, RESOURCE_EXHAUSTED or quota in
\* any letter case is slept for with the quota delay, never the generic one.
QuotaCaseInsensitive ==
    \A n \in 1..Len(delays) :
        HasQuotaMarker(r_errs[n]) =>
            delays[n] = QuotaDelay(r_errs[n], backoff, n - 1)

----------------------------------------------------------------------------
(* Claims about run_batch and poll_batch, checked under SpecLife *)

\* the log without its sleeps
Calls == SelectSeq(log, LAMBDA e : e.op # "sleep")

\* how many entries of the log are calls of op
Count(op) == Cardinality({j \in DOMAIN log : log[j].op = op})

\* retrieve_batch calls made by the output_file_id re-query loop
NRequery ==
    IF IsNone(poll_result) THEN 0 ELSE Count("retrieve_batch") - poll_count

\* the position in the log of the k-th call of op
Nth(op, k) ==
    CHOOSE j \in DOMAIN log :
        /\ log[j].op = op
        /\ Cardinality({i \in 1..j : log[i].op = op}) = k

\* C11: poll_batch returns only when the status it just retrieved is
\* completed, failed or cancelled, and returns that snapshot; on any other
\* status it sleeps and polls again; once the provider has reported one of the
\* three, poll_batch does return.
PollTermination ==
    /\ [](~IsNone(poll_result) =>
             The(poll_result).status \in {"completed", "failed", "cancelled"})
    /\ [](lpc = "polled" => poll_result = status)
    /\ [][lpc = "poll_check" =>
             IF The(status).status \in {"completed", "failed", "cancelled"}
             THEN lpc' = "polled" /\ poll_result' = status /\ status' = status
             ELSE lpc' = "poll_sleep" /\ IsNone(poll_result')]_vars
    /\ [][lpc = "poll_sleep" => lpc' = "poll"]_vars
    /\ ((lpc = "poll_check"
            /\ The(status).status \in {"completed", "failed", "cancelled"})
           ~> lpc = "polled")

\* C11 witness: poll_batch returned a cancelled job at its third query.
PollTerminationWitness ==
    /\ lpc = "polled"
    /\ poll_count = 3
    /\ The(poll_result).status = "cancelled"

\* C12: with a completed status that carries no output_file_id, run_batch
\* re-queries the job at most 6 times, sleeps 2*k seconds right before the
\* k-th re-query, stops at the first re-query that carries an id and goes on
\* to download; when all 6 lack an id it raises, with no download_file and no
\* write_outputs.
ResultIdRetry ==
    /\ NRequery <= 6
    /\ \A k \in 1..NRequery :
          LET j == Nth("retrieve_batch", poll_count + k)
          IN  log[j - 1] = Sleep(2 * k)
    /\ lpc \in {"id_loop", "id_query"} => ~NonEmpty(output_file_id)
    /\ (NRequery >= 1 /\ NonEmpty(output_file_id)) =>
          /\ lpc \in {"download", "parse", "write_out", "returned", "raised"}
          /\ output_file_id = The(status).output_file_id
    /\ (/\ NRequery = 6
        /\ log[Nth("retrieve_batch", poll_count + 6)].ok
        /\ ~NonEmpty(output_file_id)
        /\ lpc # "id_loop") =>
          (lpc = "raised" /\ lerr = Some("no result file yet"))
    /\ lerr = Some("no result file yet") =>
          /\ NRequery = 6
          /\ Count("download_file") = 0
          /\ Count("write_outputs") = 0

\* C12 witness: the third re-query brought the id and the download began.
ResultIdRetryWitness ==
    /\ NRequery = 3
    /\ NonEmpty(output_file_id)
    /\ Count("download_file") = 1

\* C13: download_file is called at most 8 times, the first success ends the
\* attempts, 2*k seconds of sleep follow the k-th failed attempt (the 8th
\* too), and 8 failures raise without parsing or writing anything.
DownloadRetry ==
    /\ Count("download_file") <= 8
    /\ \A k \in 1..Count("download_file") :
          LET j == Nth("download_file", k)
          IN  IF log[j].ok
              THEN /\ k = Count("download_file")
                   /\ j < Len(log) => log[j + 1].op = "parse_batch_results"
              ELSE /\ j < Len(log)
                   /\ log[j + 1] = Sleep(2 * k)
    /\ (Count("download_file") = 8 /\ ~log[Nth("download_file", 8)].ok) =>
          /\ lpc = "raised"
          /\ lerr = Some("result file not available")
          /\ Count("parse_batch_results") = 0
          /\ Count("write_outputs") = 0
    /\ lerr = Some("result file not available") => Count("download_file") = 8

\* C13 witness: the 8th attempt failed, 16 seconds were slept and the run
\* raised.
DownloadRetryWitness ==
    /\ lpc = "raised"
    /\ Count("download_file") = 8
    /\ log[Len(log)] = Sleep(16)

\* C14: when poll_batch returned a failed or cancelled job, run_batch returns
\* the job and that snapshot with results = None, and makes no re-query, no
\* download, no parse and writes no output.
NoFetchAfterFailure ==
    (~IsNone(poll_result) /\ The(poll_result).status \in {"failed", "cancelled"}) =>
        /\ lpc \in {"polled", "returned"}
        /\ lpc = "returned" =>
              result = Some([batch |-> "batch", status |-> The(poll_result),
                             results |-> None])
        /\ NRequery = 0
        /\ Count("download_file") = 0
        /\ Count("parse_batch_results") = 0
        /\ Count("write_outputs") = 0

\* C14 witness: a cancelled job was returned to the caller.
NoFetchAfterFailureWitness ==
    /\ lpc = "returned"
    /\ The(poll_result).status = "cancelled"
    /\ The(poll_result).output_file_id = Some("file-out")

\* the place of each step in the lifecycle
Rank(op) ==
    CASE op = "write_request_jsonl" -> 1
      [] op = "upload_jsonl" -> 2
      [] op = "create_batch" -> 3
      [] op = "retrieve_batch" -> 4
      [] op = "download_file" -> 5
      [] op = "parse_batch_results" -> 6
      [] op = "write_outputs" -> 7

\* C15: the steps of a run occur in the order write request file,
\* upload_jsonl, create_batch, retrieve_batch (one or more), download_file,
\* parse, write_outputs; each of them but retrieve_batch and download_file at
\* most once; a step runs only after every earlier step succeeded;
\* download_file only after a completed status and with a non-empty
\* output_file_id; a run that returns results made every step.
LifecycleOrder ==
    LET c == Calls
        n == Len(c)
        rank == [j \in 1..n |-> Rank(c[j].op)]
    IN  /\ \A j \in 1..(n - 1) : rank[j] <= rank[j + 1]
        /\ \A op \in {"write_request_jsonl", "upload_jsonl", "create_batch",
                       "parse_batch_results", "write_outputs"} : Count(op) <= 1
        /\ \A j \in 1..n :
              \A r \in 1..(rank[j] - 1) :
                  \E i \in 1..(j - 1) : rank[i] = r /\ c[i].ok
        /\ \A i \in 1..n :
              (~c[i].ok /\ c[i].op # "download_file") => i = n
        /\ \A j \in 1..n :
              c[j].op = "download_file" =>
                  /\ ~IsNone(poll_result)
                  /\ The(poll_result).status = "completed"
                  /\ ~IsNone(c[j].arg)
                  /\ The(c[j].arg) # ""
        /\ (lpc = "returned" /\ ~IsNone(The(result).results)) =>
              /\ \A op \in {"write_request_jsonl", "upload_jsonl",
                             "create_batch", "parse_batch_results",
                             "write_outputs"} : Count(op) = 1
              /\ Count("retrieve_batch") >= 1
              /\ Count("download_file") >= 1

\* C15 witness: a run returned results after a re-query and a failed download.
LifecycleOrderWitness ==
    /\ lpc = "returned"
    /\ ~IsNone(The(result).results)
    /\ NRequery = 1
    /\ Count("download_file") = 2

\* C25: an upload response with an id neither at top level nor under data
\* ends the run with a fatal error and create_batch, retrieve_batch and
\* download_file are never called; with an id at either place, that id (the
\* top-level one first) is the input_file_id create_batch is called with.
UploadFileId ==
    /\ [](lerr = Some("upload returned no file id") =>
             /\ lpc = "raised"
             /\ \A op \in {"create_batch", "retrieve_batch", "download_file"} :
                    Count(op) = 0)
    /\ [](\A j \in DOMAIN log :
             log[j].op = "create_batch" =>
                 /\ log[j].arg = file_id
                 /\ ~IsNone(file_id)
                 /\ The(file_id) \in {"file-top", "file-data"})
    /\ [][\A resp \in UploadResponses :
             Upload(resp) =>
                 IF ~IsNone(resp.id) /\ The(resp.id) # ""
                 THEN file_id' = resp.id /\ lpc' = "create"
                 ELSE IF ~IsNone(resp.data_id) /\ The(resp.data_id) # ""
                 THEN file_id' = resp.data_id /\ lpc' = "create"
                 ELSE /\ lpc' = "raised"
                      /\ lerr' = Some("upload returned no file id")]_vars

\* C25 witness: create_batch was called with the id found under data.
UploadFileIdWitness ==
    /\ Count("create_batch") = 1
    /\ file_id = Some("file-data")
    /\ log[Nth("create_batch", 1)].arg = Some("file-data")

\* C27: with a provider other than siliconflow, aliyun or openai the run
\* raises before input is read; without a credential it raises when the
\* client is built; in both cases no request file was written and no
\* transport call made.
ConfigAborts ==
    /\ provider \notin {Some("siliconflow"), Some("aliyun"), Some("openai")} =>
          /\ lpc \in {"entry", "raised"}
          /\ lpc = "raised" => lerr = Some("unsupported provider")
          /\ log = <<>>
    /\ ~has_key =>
          /\ lpc \in {"entry", "read", "client", "raised"}
          /\ log = <<>>
    /\ (/\ ~has_key
        /\ provider \in {Some("siliconflow"), Some("aliyun"), Some("openai")}
        /\ records # <<>>
        /\ lpc = "raised") => lerr = Some("API key not set")
    /\ lerr = Some("API key not set") => ~has_key
    /\ lerr = Some("unsupported provider") =>
          provider \notin {Some("siliconflow"), Some("aliyun"), Some("openai")}

\* C27 witness: a run on a supported provider with input but no credential
\* raised when the client was built.
ConfigAbortsWitness ==
    /\ lpc = "raised"
    /\ lerr = Some("API key not set")
    /\ provider = Some("aliyun")
    /\ records # <<>>

\* the status queries poll_batch has made
PollQueries ==
    IF IsNone(poll_result) THEN Count("retrieve_batch") ELSE poll_count

\* C30: between two consecutive status queries of poll_batch there is exactly
\* one sleep, of the full interval; no sleep follows the query that returns a
\* terminal status; a further query is made only after a non-terminal answer,
\* so the number of queries is the position of the first terminal answer.
NoBusySpin ==
    /\ [](\A k \in 1..(PollQueries - 1) :
             LET j == Nth("retrieve_batch", k)
             IN  /\ log[j + 1] = Sleep(PollInterval)
                 /\ Nth("retrieve_batch", k + 1) = j + 2)
    /\ [](lpc = "polled" => log[Len(log)].op = "retrieve_batch")
    /\ [][lpc = "poll_check" =>
             IF The(status).status \in {"completed", "failed", "cancelled"}
             THEN log' = log /\ poll_count' = poll_count /\ lpc' = "polled"
             ELSE /\ log' = Append(log, Sleep(PollInterval))
                  /\ lpc' = "poll_sleep"]_vars
    /\ [][lpc = "poll_sleep" => log' = log /\ lpc' = "poll"]_vars
    /\ [][poll_count' # poll_count =>
             /\ lpc = "poll"
             /\ poll_count' = poll_count + 1
             /\ log' = Append(log, Call("retrieve_batch", None, TRUE))
             /\ poll_count > 0 =>
                    The(status).status \notin {"completed", "failed", "cancelled"}]_vars

\* C30 witness: poll_batch returned at its second query, one full sleep
\* between the two.
NoBusySpinWitness ==
    /\ lpc = "polled"
    /\ poll_count = 2
    /\ Len(log) = 6
    /\ log[5] = Sleep(PollInterval)
    /\ log[4].op = "retrieve_batch"
    /\ log[6].op = "retrieve_batch"

\* C35: an exception of retrieve_batch, in poll_batch or in the
\* output_file_id re-queries, leaves run_batch at once: it is the last call
\* made, nothing was downloaded, parsed or written; an exception of
\* download_file, before the 8th, is followed by another attempt.
PollingNotRetried ==
    /\ \A j \in DOMAIN log :
          (log[j].op = "retrieve_batch" /\ ~log[j].ok) =>
              /\ j = Len(log)
              /\ lpc = "raised"
              /\ lerr = Some("transport error")
              /\ IsNone(result)
              /\ \A op \in {"download_file", "parse_batch_results",
                             "write_outputs"} : Count(op) = 0
    /\ \A k \in 1..Min(Count("download_file"), DownloadAttempts - 1) :
          ~log[Nth("download_file", k)].ok =>
              (lpc = "download" \/ Count("download_file") > k)

\* C35 witness: the second re-query for the output_file_id raised and the
\* run ended there.
PollingNotRetriedWitness ==
    /\ lpc = "raised"
    /\ lerr = Some("transport error")
    /\ ~IsNone(poll_result)
    /\ NRequery = 2
    /\ ~log[Len(log)].ok
    /\ log[Len(log)].op = "retrieve_batch"

----------------------------------------------------------------------------
(* Claims about normalisation and the parse step, checked under SpecParse *)

\* the outcomes computed so far
ParseOuts == {The(o) : o \in {sync_out, batch_out} \ {None}}

Spaces(n) == [i \in 1..n |-> " "]

\* w is cs without its leading and trailing blanks
IsStripped(w, cs) ==
    /\ w = <<>> \/ (w[1] # " " /\ w[Len(w)] # " ")
    /\ \E i, j \in 0..Len(cs) : cs = Spaces(i) \o w \o Spaces(j)

\* C21: the extraction's keys are exactly the template's field names; a
\* field that is missing, null or a blank string is the empty string, any
\* other string is stripped, any other value is kept as given.
NormalisationComplete ==
    \A o \in ParseOuts :
        ~IsNone(o.ext) =>
            LET d == The(o.ext).data
                raw == The(content).raw
                fields == TemplateFields(template_id)
            IN  /\ DOMAIN d = {fields[i] : i \in 1..Len(fields)}
                /\ \A f \in DOMAIN d :
                      IF raw[f].t \in {"missing", "null"}
                      THEN d[f] = JStr(<<>>)
                      ELSE IF raw[f].t = "str"
                      THEN d[f].t = "str" /\ IsStripped(d[f].v, raw[f].v)
                      ELSE d[f] = raw[f]

\* C21 witness: with one field missing and the other padded with blanks the
\* extraction holds the empty string and the stripped text.
NormalisationCompleteWitness ==
    /\ template_id = "rcc"
    /\ ~IsNone(sync_out)
    /\ The(content).kind = "object"
    /\ The(content).raw["modality"] = JMissing
    /\ The(content).raw["exam_overview"] = JStr(<<" ", "x", " ">>)
    /\ The(The(sync_out).ext).data["modality"] = JStr(<<>>)
    /\ The(The(sync_out).ext).data["exam_overview"] = JStr(<<"x">>)

\* C22: in the sync worker and in parse_batch_results every Success
\* outcome's extraction carries the id of its record, whatever id the model's
\* JSON held (none, the same, another one).
RecordIdOnSuccess ==
    \A o \in ParseOuts :
        ~IsNone(o.ext) => The(o.ext).id_value = records[1].id_value

\* C22 witness: the model's JSON named another id and both paths returned the
\* record's own.
RecordIdOnSuccessWitness ==
    /\ The(content).kind = "object"
    /\ The(content).raw["id_value"] = JStr(<<" ", "B">>)
    /\ ~IsNone(sync_out) /\ ~IsNone(batch_out)
    /\ The(The(sync_out).ext).id_value = <<"A">>
    /\ The(The(batch_out).ext).id_value = <<"A">>

\* C32: for the same record, template and content string the sync worker's
\* parse step and the success branch of parse_batch_results give the same
\* (extraction, error) pair, for an object, for text that is no JSON and for
\* JSON that is no object.
PathsAgree ==
    (~IsNone(sync_out) /\ ~IsNone(batch_out)) =>
        /\ The(sync_out).ext = The(batch_out).ext
        /\ The(sync_out).err = The(batch_out).err

\* C32 witness: both paths turned JSON that is no object into the same error
\* string.
PathsAgreeWitness ==
    /\ The(content).kind = "not_object"
    /\ ~IsNone(sync_out) /\ ~IsNone(batch_out)
    /\ IsNone(The(sync_out).ext)
    /\ The(sync_out).err = The(batch_out).err
    /\ ~IsNone(The(batch_out).err)

=============================================================================
